---------------------------- MODULE Spec2Model ----------------------------
(***************************************************************************)
(* Model of the pothole prediction and SMS alerting services.              *)
(*                                                                         *)
(*   src/api/sms_service.py          SMSService (rate-limited SMS alerts)  *)
(*   src/api/predictive_analytics.py PredictiveAnalytics (prediction)      *)
(*                                                                         *)
(* Units: the clock counts half days (Day = 2 ticks = timedelta(days=1)),  *)
(* SMS coordinates are in 1e-4 degrees, report coordinates in 1e-2         *)
(* degrees, confidences in hundredths, frequencies in twelfths of a        *)
(* report per week (12 = lcm of the 1..4 buckets a mean is taken over).    *)
(***************************************************************************)
EXTENDS Integers, Sequences, FiniteSets, TLC

(***************************************************************************)
(* Bounds of the model.                                                    *)
(***************************************************************************)
NThreads == 2
MaxClock == 4

(***************************************************************************)
(* Program constants.                                                      *)
(***************************************************************************)
max_alerts_per_day == 1
Day == 2
PhoneLen == 10

Threads == 1..NThreads

(***************************************************************************)
(* Text helpers: Python str operations on TLA+ strings.                    *)
(***************************************************************************)
CharAt(s, i) == SubSeq(s, i, i)

Digits == {"0", "1", "2", "3", "4", "5", "6", "7", "8", "9"}

\* s[i:] starts with pat
StartsAt(s, i, pat) ==
    /\ i + Len(pat) - 1 <= Len(s)
    /\ SubSeq(s, i, i + Len(pat) - 1) = pat

\* 0 when pat does not occur in s at or after position i, else the first position
RECURSIVE FindFrom(_, _, _)
FindFrom(s, pat, i) ==
    IF i + Len(pat) - 1 > Len(s) THEN 0
    ELSE IF StartsAt(s, i, pat) THEN i
    ELSE FindFrom(s, pat, i + 1)

Contains(s, pat) == FindFrom(s, pat, 1) # 0

\* str.replace(pat, ''): every non-overlapping occurrence, left to right
RECURSIVE Remove(_, _)
Remove(s, pat) ==
    IF Len(s) = 0 THEN s
    ELSE IF StartsAt(s, 1, pat) THEN Remove(SubSeq(s, Len(pat) + 1, Len(s)), pat)
    ELSE CharAt(s, 1) \o Remove(SubSeq(s, 2, Len(s)), pat)

\* str.isdigit() on the ASCII texts of the model
IsDigit(s) == Len(s) > 0 /\ \A i \in 1..Len(s) : CharAt(s, i) \in Digits

(***************************************************************************)
(* SMSService: inputs.                                                     *)
(***************************************************************************)
\* a value of location_data.get('lat', 0): absent key, None, or a float
Missing == [t |-> "missing", v |-> 0]
NoneVal == [t |-> "none", v |-> 0]
FloatV(n) == [t |-> "float", v |-> n]
IntV(n) == [t |-> "int", v |-> n]

LocationInputs ==
    { [lat |-> FloatV(129716), lng |-> FloatV(775946)],
      [lat |-> FloatV(129724), lng |-> FloatV(775951)],
      [lat |-> FloatV(129726), lng |-> FloatV(775946)],
      [lat |-> Missing, lng |-> Missing],
      [lat |-> NoneVal, lng |-> FloatV(775946)] }

PhoneInputs ==
    { << >>,
      << "+91 98765-43210" >>,
      << "12345" >>,
      << "98765+9143210" >>,
      << "12345", "9876543210", "98765 43211" >> }

\* what requests.post / response.json() can produce
GatewayOutcomes ==
    { "accepted",        \* 200, {"return": true}
      "rejected",        \* 200, {"return": false, "message": ...}
      "not_an_object",   \* 200, body parses to a list: result.get raises AttributeError
      "unparseable",     \* 200, response.json() raises JSONDecodeError
      "http_error",      \* status_code != 200
      "timeout",         \* requests.exceptions.Timeout
      "transport",       \* requests.exceptions.ConnectionError
      "other" }          \* any other Exception

NoRet == [kind |-> "none", ok |-> FALSE, msg |-> "", n |-> 0]
Return(ok, msg, n) == [kind |-> "return", ok |-> ok, msg |-> msg, n |-> n]
Raise(exc) == [kind |-> "raise", ok |-> FALSE, msg |-> exc, n |-> 0]

NoKey == << IntV(0), IntV(-1) >>

VARIABLES
    api_key,        \* SMSService.api_key ("" when FAST2SMS_API_KEY is unset)
    sent_alerts,    \* SMSService.sent_alerts: location key -> sequence of timestamps
    clock,          \* datetime.now()
    pc,             \* per caller: position in send_high_priority_alert
    phone_numbers,  \* per caller: argument
    location_key,   \* per caller: local of send_high_priority_alert
    now,            \* per caller: local of _can_send_alert
    seen,           \* per caller: the entry the list comprehension of _can_send_alert iterates
    pruned,         \* per caller: the list the comprehension built
    can_send,       \* per caller: return value of _can_send_alert
    clean_numbers,  \* per caller: local of send_high_priority_alert
    response,       \* per caller: outcome of requests.post, "" before the call
    ret,            \* per caller: what the call returned or raised
    model,          \* PredictiveAnalytics.model ("" when GEMINI_API_KEY is unset)
    call,           \* the last call of PredictiveAnalytics: arguments, what the
                    \* Geofilter made of the reports (processed), result
    df,             \* the DataFrame handed to _analyze_trends
    trends          \* the TrendResult _analyze_trends returned for df

smsVars == << api_key, sent_alerts, clock, pc, phone_numbers, location_key, now,
              seen, pruned, can_send, clean_numbers, response, ret >>

predVars == << model, call, df, trends >>

vars == << smsVars, predVars >>

(***************************************************************************)
(* SMSService: helpers.                                                    *)
(***************************************************************************)
is_enabled == api_key # ""

\* round(x, 3) of a float given in 1e-4 degrees, result in 1e-3 degrees.  An
\* int (the default 0) stays an int, so "0_0" and "0.0_0.0" are different keys.
Round3(x) ==
    IF x.t = "int" THEN x
    ELSE FloatV((x.v + 5) \div 10)

Default0(x) == IF x.t = "missing" THEN IntV(0) ELSE x

_get_location_key(lat, lng) == << Round3(lat), Round3(lng) >>

\* sent_alerts is a defaultdict(list): reading an absent key yields []
Entry(k) == IF k \in DOMAIN sent_alerts THEN sent_alerts[k] ELSE << >>

\* sent_alerts with sent_alerts[k] set to e (the key is created when absent)
WithEntry(k, e) ==
    [x \in DOMAIN sent_alerts \cup {k} |-> IF x = k THEN e ELSE sent_alerts[x]]

KeepYoungerInclusive(e, yesterday) == SelectSeq(e, LAMBDA ts : ts >= yesterday)

\* [timestamp for timestamp in e if timestamp > yesterday]
KeepYounger(e, yesterday) == SelectSeq(e, LAMBDA ts : ts > yesterday)

CanSendOffByOne(e) == Len(e) <= max_alerts_per_day

\* len(self.sent_alerts[location_key]) < self.max_alerts_per_day
CanSend(e) == Len(e) < max_alerts_per_day

\* the normalisation of one number (line 70)
CleanNumber(number) == Remove(Remove(Remove(number, "+91"), " "), "-")

IsValidNumber(clean) == Len(clean) = PhoneLen /\ IsDigit(clean)

RECURSIVE CleanNumbers(_)
CleanNumbers(numbers) ==
    IF numbers = << >> THEN << >>
    ELSE LET c == CleanNumber(Head(numbers))
         IN  (IF IsValidNumber(c) THEN << c >> ELSE << >>) \o CleanNumbers(Tail(numbers))

\* the class of the exception a gateway outcome raises inside the try block,
\* "" when none
Raised(outcome) ==
    CASE outcome = "timeout" -> "Timeout"
      [] outcome = "transport" -> "ConnectionError"
      [] outcome = "unparseable" -> "JSONDecodeError"
      [] outcome = "not_an_object" -> "AttributeError"
      [] outcome = "other" -> "Exception"
      [] OTHER -> ""

\* requests' exception classes: Timeout, ConnectionError and (requests >= 2.27)
\* JSONDecodeError derive from RequestException
IsRequestException(exc) == exc \in {"Timeout", "ConnectionError", "JSONDecodeError"}

HandleExceptionNoCatchAll(exc) ==
    IF exc = "Timeout" THEN Return(FALSE, "SMS request timeout", 0)
    ELSE IF IsRequestException(exc) THEN Return(FALSE, "SMS request failed", 0)
    ELSE Raise(exc)

\* the except clauses of send_high_priority_alert, in order
HandleException(exc) ==
    IF exc = "Timeout" THEN Return(FALSE, "SMS request timeout", 0)
    ELSE IF IsRequestException(exc) THEN Return(FALSE, "SMS request failed", 0)
    ELSE Return(FALSE, "Unexpected error", 0)

\* lines 91-116: the outcome of the try block for n clean numbers
GatewayResult(outcome, n) ==
    IF Raised(outcome) # "" THEN HandleException(Raised(outcome))
    ELSE IF outcome = "http_error" THEN Return(FALSE, "SMS service error", 0)
    ELSE IF outcome = "accepted" THEN Return(TRUE, "Alert sent to recipients", n)
    ELSE Return(FALSE, "SMS API error", 0)

RecordedSpeculatively(r, e, ts) == Append(e, ts)

\* lines 95-97: the entry after a gateway result r at time ts
Recorded(r, e, ts) == IF r.ok THEN Append(e, ts) ELSE e

(***************************************************************************)
(* PredictiveAnalytics: the Trend Analyzer.                                *)
(***************************************************************************)
NoTrends == [trend |-> "", frequency |-> 0, prediction |-> ""]
NoCall == [op |-> ""]

\* no PredictiveAnalytics operation has run
PredictiveIdle ==
    /\ model = ""
    /\ call = NoCall
    /\ df = << >>
    /\ trends = NoTrends

\* the label of the weekly bin ('W': weeks ending on Sunday, right-closed) of
\* a day, days counted from a Sunday 0: the Sunday on or after the day
WeekLabel(day) == 7 * ((day + 6) \div 7)

RECURSIVE Sum(_, _, _)
\* f[lo] + ... + f[hi]
Sum(f, lo, hi) == IF lo > hi THEN 0 ELSE f[lo] + Sum(f, lo + 1, hi)

\* the counts of the weeks that have a report only, empty weeks left out
WeeklyCountsNonEmpty(d) ==
    IF d = << >> THEN << >>
    ELSE LET labels == { WeekLabel(d[i].created_at) : i \in 1..Len(d) }
             count(l) == Cardinality({ i \in 1..Len(d) : WeekLabel(d[i].created_at) = l })
             rank(l) == Cardinality({ m \in labels : m <= l })
         IN  [j \in 1..Cardinality(labels) |->
                 count(CHOOSE l \in labels : rank(l) = j)]

\* df.resample('W', on='created_at').size(): one count per week from the week
\* of the first report to the week of the last, empty weeks included
WeeklyCounts(d) ==
    IF d = << >> THEN << >>
    ELSE LET labels == { WeekLabel(d[i].created_at) : i \in 1..Len(d) }
             first == CHOOSE l \in labels : \A m \in labels : l <= m
             last == CHOOSE l \in labels : \A m \in labels : l >= m
         IN  [j \in 1..((last - first) \div 7 + 1) |->
                 Cardinality({ i \in 1..Len(d) :
                                 WeekLabel(d[i].created_at) = first + 7 * (j - 1) })]

\* np.polyfit(range(n), y, 1)[0] as the fraction num / den (den > 0 for n >= 2)
SlopeNum(y) ==
    LET n == Len(y)
    IN  n * Sum([i \in 1..n |-> (i - 1) * y[i]], 1, n)
          - Sum([i \in 1..n |-> i - 1], 1, n) * Sum(y, 1, n)

SlopeDen(y) ==
    LET n == Len(y)
    IN  n * Sum([i \in 1..n |-> (i - 1) * (i - 1)], 1, n)
          - Sum([i \in 1..n |-> i - 1], 1, n) * Sum([i \in 1..n |-> i - 1], 1, n)

\* line 179.  The fit is computed in floating point: where the exact slope is
\* 0.1 or -0.1 the computed one may fall on either side, fp (-1, 0 or 1)
\* being the sign of its rounding error.
TrendOf(y, fp) ==
    LET num == 10 * SlopeNum(y)
        den == SlopeDen(y)
    IN  IF num > den \/ (num = den /\ fp > 0) THEN "increasing"
        ELSE IF num < -den \/ (num = -den /\ fp < 0) THEN "decreasing"
        ELSE "stable"

\* weekly_counts[-4:].mean(), in twelfths
RecentFrequency(y) ==
    LET n == Len(y)
        k == IF n < 4 THEN n ELSE 4
    IN  (12 * Sum(y, n - k + 1, n)) \div k

PredictSeverityMediumFirst(trend, frequency) ==
    IF frequency > 24 \/ trend = "increasing" THEN "medium"
    ELSE IF frequency > 60 \/ (trend = "increasing" /\ frequency > 36) THEN "high"
    ELSE "low"

\* lines 184-186, the frequency in twelfths of a report per week
PredictSeverity(trend, frequency) ==
    IF frequency > 60 \/ (trend = "increasing" /\ frequency > 36) THEN "high"
    ELSE IF frequency > 24 \/ trend = "increasing" THEN "medium"
    ELSE "low"

_analyze_trends(d, fp) ==
    IF d = << >>
    THEN [trend |-> "stable", frequency |-> 0, prediction |-> "low"]
    ELSE LET weekly_counts == WeeklyCounts(d)
         IN  IF Len(weekly_counts) < 2
             THEN [trend |-> "stable",
                   frequency |-> (12 * Sum(weekly_counts, 1, Len(weekly_counts)))
                                    \div Len(weekly_counts),
                   prediction |-> "low"]
             ELSE LET trend == TrendOf(weekly_counts, fp)
                      recent_frequency == RecentFrequency(weekly_counts)
                  IN  [trend |-> trend,
                       frequency |-> recent_frequency,
                       prediction |-> PredictSeverity(trend, recent_frequency)]

(***************************************************************************)
(* PredictiveAnalytics: the keyword-mode AI Response Parser.               *)
(***************************************************************************)
UpperCase == "ABCDEFGHIJKLMNOPQRSTUVWXYZ"
LowerCase == "abcdefghijklmnopqrstuvwxyz"

LowerChar(c) ==
    IF \E i \in 1..Len(UpperCase) : CharAt(UpperCase, i) = c
    THEN CharAt(LowerCase, CHOOSE i \in 1..Len(UpperCase) : CharAt(UpperCase, i) = c)
    ELSE c

RECURSIVE Lower(_)
\* str.lower()
Lower(s) == IF Len(s) = 0 THEN s ELSE LowerChar(CharAt(s, 1)) \o Lower(SubSeq(s, 2, Len(s)))

\* the characters \s matches, of those the model's texts use
Whitespace == {" ", "\n", "\t"}

RECURSIVE SkipWhile(_, _, _)
\* the first position at or after i whose character is not in chars
SkipWhile(s, i, chars) ==
    IF i <= Len(s) /\ CharAt(s, i) \in chars THEN SkipWhile(s, i + 1, chars) ELSE i

\* str.strip()
RECURSIVE Strip(_)
Strip(s) ==
    IF Len(s) = 0 THEN s
    ELSE IF CharAt(s, 1) \in Whitespace THEN Strip(SubSeq(s, 2, Len(s)))
    ELSE IF CharAt(s, Len(s)) \in Whitespace THEN Strip(SubSeq(s, 1, Len(s) - 1))
    ELSE s

\* s.split(sep)[0]
BeforeFirst(s, sep) ==
    IF FindFrom(s, sep, 1) = 0 THEN s ELSE SubSeq(s, 1, FindFrom(s, sep, 1) - 1)

RECURSIVE SplitLines(_)
\* s.split('\n')
SplitLines(s) ==
    IF FindFrom(s, "\n", 1) = 0 THEN << s >>
    ELSE << SubSeq(s, 1, FindFrom(s, "\n", 1) - 1) >>
           \o SplitLines(SubSeq(s, FindFrom(s, "\n", 1) + 1, Len(s)))

RECURSIVE FirstConfidenceFrom(_, _)
\* re.findall(r'confidence[\s:]+([0-9.]+)', s)[0], searching from position i;
\* "" when there is no match
FirstConfidenceFrom(s, i) ==
    LET p == FindFrom(s, "confidence", i)
        sep == p + Len("confidence")
        num == SkipWhile(s, sep, Whitespace \cup {":"})
        end == SkipWhile(s, num, Digits \cup {"."})
    IN  IF p = 0 THEN ""
        ELSE IF num > sep /\ end > num THEN SubSeq(s, num, end - 1)
        ELSE FirstConfidenceFrom(s, p + 1)

DigitValue(c) == CHOOSE d \in 0..9 : CharAt("0123456789", d + 1) = c

RECURSIVE ToInt(_)
\* the value of a string of digits ("" is 0)
ToInt(s) ==
    IF Len(s) = 0 THEN 0
    ELSE 10 * ToInt(SubSeq(s, 1, Len(s) - 1)) + DigitValue(CharAt(s, Len(s)))

\* float(s) for s over [0-9.]: ok is FALSE where Python raises ValueError (no
\* digit, or more than one point); v is the value in hundredths, further
\* decimals dropped
ParseFloat(s) ==
    LET points == { i \in 1..Len(s) : CharAt(s, i) = "." }
        point == IF points = {} THEN Len(s) + 1 ELSE CHOOSE i \in points : TRUE
        whole == SubSeq(s, 1, point - 1)
        cents == SubSeq(SubSeq(s, point + 1, Len(s)) \o "00", 1, 2)
    IN  IF Cardinality(points) > 1 \/ Len(s) = Cardinality(points)
        THEN [ok |-> FALSE, v |-> 0]
        ELSE [ok |-> TRUE, v |-> 100 * ToInt(whole) + ToInt(cents)]

\* lines 227-237: the first keyword group with a keyword in the lowered text
SeverityOf(lowered) ==
    IF \E k \in {"high", "severe", "critical", "dangerous"} : Contains(lowered, k)
    THEN "high"
    ELSE IF \E k \in {"medium", "moderate", "intermediate"} : Contains(lowered, k)
    THEN "medium"
    ELSE IF \E k \in {"low", "minor", "minimal"} : Contains(lowered, k)
    THEN "low"
    ELSE "medium"

\* lines 256-259
Recommendations(text) ==
    LET lines == SplitLines(text)
        wanted(line) == \E w \in {"recommend", "suggest", "should", "need to"} :
                            Contains(Lower(line), w)
        kept == SelectSeq(lines, wanted)
    IN  [i \in 1..Len(kept) |-> Strip(kept[i])]

\* line 252: response_text.split('trend')[1].split('\n')[0]
AfterTrend(text) ==
    LET rest == SubSeq(text, FindFrom(text, "trend", 1) + Len("trend"), Len(text))
    IN  BeforeFirst(BeforeFirst(rest, "trend"), "\n")

\* lines 269-278: the result of the except clause
ParseErrorResult ==
    [severity |-> "medium", confidence |-> 50,
     trends |-> [description |-> "Error parsing AI response", recommendations |-> << >>]]

Clamp(v) == IF v > 100 THEN 100 ELSE IF v < 0 THEN 0 ELSE v

\* line 242: float(confidence_matches[0]) raises ValueError
ConfidenceRaises(response_text) ==
    LET match == FirstConfidenceFrom(Lower(response_text), 1)
    IN  match # "" /\ ~ParseFloat(match).ok

\* line 252: 'trend' is found in the lowered text, the split is on the
\* original one: split('trend')[1] raises IndexError
TrendRaises(response_text) ==
    Contains(Lower(response_text), "trend") /\ ~Contains(response_text, "trend")

_parse_ai_response(response_text) ==
    LET lowered == Lower(response_text)
        match == FirstConfidenceFrom(lowered, 1)
        confidence == IF match # "" THEN ParseFloat(match).v ELSE 70
        hasTrend == Contains(lowered, "trend")
    IN  IF ConfidenceRaises(response_text) \/ TrendRaises(response_text)
        THEN ParseErrorResult
        ELSE [severity |-> SeverityOf(lowered),
              confidence |-> Clamp(confidence),
              trends |-> [description |-> IF hasTrend THEN Strip(AfterTrend(response_text))
                                          ELSE "",
                          recommendations |-> Recommendations(response_text)]]

(***************************************************************************)
(* PredictiveAnalytics: Geofilter, Hotspot Clusterer, Prediction Blender.  *)
(***************************************************************************)
radius_km == 5
KmPerDegree == 111
min_samples == 3

LocationFields == {"location", "lat", "lng"}
RowFields == {"severity", "createdAt", "verified", "fixingStatus"}

\* report: has = the keys present (lat and lng are those of report['location']),
\* coordinates in 1e-2 degrees, day = createdAt, dateOk = pd.to_datetime accepts it
Distance2(report, location) ==
    (report.lat - location.lat) * (report.lat - location.lat)
      + (report.lng - location.lng) * (report.lng - location.lng)

\* sqrt(dlat^2 + dlng^2) * 111 <= radius_km, with the squares in 1e-4 degrees^2
InRadius(report, location) ==
    Distance2(report, location) * KmPerDegree * KmPerDegree
        <= radius_km * radius_km * 100 * 100

\* lines 105-112 raise KeyError on this report
DistanceRaises(report, location) ==
    \/ ~(LocationFields \subseteq report.has)
    \/ ~({"lat", "lng"} \subseteq location.has)

\* lines 115-123 raise on this report (KeyError, or pd.to_datetime's error)
RowRaises(report) ==
    \/ ~(RowFields \subseteq report.has)
    \/ ~report.dateOk

RECURSIVE _process_historical_data(_, _)
\* ok = FALSE when an exception leaves the loop, else rows = the DataFrame
_process_historical_data(reports, location) ==
    IF reports = << >> THEN [ok |-> TRUE, rows |-> << >>]
    ELSE LET report == Head(reports)
             rest == _process_historical_data(Tail(reports), location)
         IN  IF DistanceRaises(report, location) THEN [ok |-> FALSE, rows |-> << >>]
             ELSE IF ~InRadius(report, location) THEN rest
             ELSE IF RowRaises(report) THEN [ok |-> FALSE, rows |-> << >>]
             ELSE [ok |-> rest.ok,
                   rows |-> IF rest.ok
                            THEN << [latitude |-> report.lat, longitude |-> report.lng,
                                     created_at |-> report.day] >> \o rest.rows
                            ELSE << >>]

\* DBSCAN(eps = 0.1 km, min_samples = 3): on the 1e-2 degree grid two rows are
\* neighbours only at the same point (eps is 0.0009 degrees), so a cluster is a
\* point with at least 3 rows; intensity in tenths
_identify_hotspots(d) ==
    LET points == { << d[i].latitude, d[i].longitude >> : i \in 1..Len(d) }
        size(pt) == Cardinality({ i \in 1..Len(d) :
                                    << d[i].latitude, d[i].longitude >> = pt })
    IN  { [lat |-> pt[1], lng |-> pt[2], count |-> size(pt),
           intensity |-> IF size(pt) > 10 THEN 10 ELSE size(pt)] :
          pt \in { q \in points : size(q) >= min_samples } }

\* pd.Timedelta(time_range) accepts "7 days"; a unit without a number ("week",
\* the default argument) is a ValueError
TimedeltaParses(time_range) == time_range # "week"

\* _generate_ai_prompt raises on an empty DataFrame (no 'created_at' column)
\* and on a time_range pd.Timedelta rejects
PromptRaises(d, time_range) == d = << >> \/ ~TimedeltaParses(time_range)

\* lines 86-97
DefaultResult ==
    [predictedSeverity |-> "low", confidence |-> 30, hotspots |-> {},
     trends |-> [statistical |->
                    [trend |-> "stable", frequency |-> 0, prediction |-> "low"]]]

StatisticalResultAIDefault(statistical_trends, hotspots) ==
    [predictedSeverity |-> statistical_trends.prediction, confidence |-> 70,
     hotspots |-> hotspots,
     trends |-> [ai |-> << >>, statistical |-> statistical_trends]]

\* lines 76-83
StatisticalResult(statistical_trends, hotspots) ==
    [predictedSeverity |-> statistical_trends.prediction, confidence |-> 60,
     hotspots |-> hotspots,
     trends |-> [statistical |-> statistical_trends]]

_fallback_prediction(location, reports, fp) ==
    LET processed == _process_historical_data(reports, location)
    IN  IF ~processed.ok THEN DefaultResult
        ELSE StatisticalResult(_analyze_trends(processed.rows, fp),
                               _identify_hotspots(processed.rows))

BlendedResultAIOnly(ai_insights, statistical_trends, hotspots) ==
    [predictedSeverity |-> ai_insights.severity, confidence |-> ai_insights.confidence,
     hotspots |-> hotspots,
     trends |-> [ai |-> ai_insights.trends]]

\* lines 54-62
BlendedResult(ai_insights, statistical_trends, hotspots) ==
    [predictedSeverity |-> ai_insights.severity, confidence |-> ai_insights.confidence,
     hotspots |-> hotspots,
     trends |-> [ai |-> ai_insights.trends, statistical |-> statistical_trends]]

\* the AI is reached: enabled, the reports were processed, the prompt was built
AIConsulted(location, reports, time_range) ==
    /\ model # ""
    /\ _process_historical_data(reports, location).ok
    /\ ~PromptRaises(_process_historical_data(reports, location).rows, time_range)

\* ai: what generate_content / response.text do when reached
predict_pothole_conditions(location, reports, time_range, ai, fp) ==
    IF ~AIConsulted(location, reports, time_range) \/ ai.kind # "text"
    THEN _fallback_prediction(location, reports, fp)
    ELSE LET rows == _process_historical_data(reports, location).rows
         IN  BlendedResult(_parse_ai_response(ai.text),
                           _analyze_trends(rows, fp),
                           _identify_hotspots(rows))

(***************************************************************************)
(* SMSService.send_high_priority_alert, one action per atomic step of a    *)
(* caller t.                                                               *)
(***************************************************************************)
Finish(t, r) ==
    /\ pc' = [pc EXCEPT ![t] = "done"]
    /\ ret' = [ret EXCEPT ![t] = r]

\* lines 45-56: the guards and the location key
Call(t, numbers, location_data) ==
    /\ UNCHANGED predVars
    /\ pc[t] = "idle"
    /\ phone_numbers' = [phone_numbers EXCEPT ![t] = numbers]
    /\ IF ~is_enabled
       THEN /\ Finish(t, Return(FALSE, "SMS service not configured", 0))
            /\ UNCHANGED location_key
       ELSE IF numbers = << >>
       THEN /\ Finish(t, Return(FALSE, "No phone numbers provided", 0))
            /\ UNCHANGED location_key
       ELSE IF location_data.lat.t = "none" \/ location_data.lng.t = "none"
       THEN \* round(None, 3) raises TypeError outside the try block
            /\ Finish(t, Raise("TypeError"))
            /\ UNCHANGED location_key
       ELSE /\ location_key' = [location_key EXCEPT ![t] =
                   _get_location_key(Default0(location_data.lat), Default0(location_data.lng))]
            /\ pc' = [pc EXCEPT ![t] = "prune"]
            /\ UNCHANGED ret
    /\ UNCHANGED << api_key, sent_alerts, clock, now, seen, pruned, can_send,
                    clean_numbers, response >>

\* lines 31-38, right-hand side: read the clock and the entry, build the pruned list
Prune(t) ==
    /\ UNCHANGED predVars
    /\ pc[t] = "prune"
    /\ now' = [now EXCEPT ![t] = clock]
    /\ seen' = [seen EXCEPT ![t] = Entry(location_key[t])]
    /\ pruned' = [pruned EXCEPT ![t] = KeepYounger(Entry(location_key[t]), clock - Day)]
    /\ sent_alerts' = WithEntry(location_key[t], Entry(location_key[t]))
    /\ pc' = [pc EXCEPT ![t] = "assign"]
    /\ UNCHANGED << api_key, clock, phone_numbers, location_key, can_send,
                    clean_numbers, response, ret >>

\* line 35: the assignment
Assign(t) ==
    /\ UNCHANGED predVars
    /\ pc[t] = "assign"
    /\ sent_alerts' = WithEntry(location_key[t], pruned[t])
    /\ pc' = [pc EXCEPT ![t] = "test"]
    /\ UNCHANGED << api_key, clock, phone_numbers, location_key, now, seen, pruned,
                    can_send, clean_numbers, response, ret >>

\* line 41: the comparison _can_send_alert returns
Test(t) ==
    /\ UNCHANGED predVars
    /\ pc[t] = "test"
    /\ can_send' = [can_send EXCEPT ![t] = CanSend(Entry(location_key[t]))]
    /\ pc' = [pc EXCEPT ![t] = "checked"]
    /\ UNCHANGED << api_key, sent_alerts, clock, phone_numbers, location_key, now, seen,
                    pruned, clean_numbers, response, ret >>

\* lines 59-91: the rate-limit verdict, the clean numbers, the request
Proceed(t) ==
    /\ UNCHANGED predVars
    /\ pc[t] = "checked"
    /\ IF ~can_send[t]
       THEN /\ Finish(t, Return(FALSE, "Daily alert limit reached for this location", 0))
            /\ UNCHANGED clean_numbers
       ELSE /\ clean_numbers' = [clean_numbers EXCEPT ![t] = CleanNumbers(phone_numbers[t])]
            /\ IF CleanNumbers(phone_numbers[t]) = << >>
               THEN Finish(t, Return(FALSE, "No valid phone numbers found", 0))
               ELSE /\ pc' = [pc EXCEPT ![t] = "post"]
                    /\ UNCHANGED ret
    /\ UNCHANGED << api_key, sent_alerts, clock, phone_numbers, location_key, now, seen,
                    pruned, can_send, response >>

\* lines 91-116: the gateway answers (or fails); a success is recorded
Respond(t, outcome) ==
    /\ UNCHANGED predVars
    /\ pc[t] = "post"
    /\ response' = [response EXCEPT ![t] = outcome]
    /\ LET r == GatewayResult(outcome, Len(clean_numbers[t]))
       IN  /\ Finish(t, r)
           /\ sent_alerts' =
                 WithEntry(location_key[t], Recorded(r, Entry(location_key[t]), clock))
    /\ UNCHANGED << api_key, clock, phone_numbers, location_key, now, seen, pruned,
                    can_send, clean_numbers >>

\* the call is over; the caller's frame is gone
Done(t) ==
    /\ UNCHANGED predVars
    /\ pc[t] = "done"
    /\ pc' = [pc EXCEPT ![t] = "idle"]
    /\ phone_numbers' = [phone_numbers EXCEPT ![t] = << >>]
    /\ location_key' = [location_key EXCEPT ![t] = NoKey]
    /\ now' = [now EXCEPT ![t] = 0]
    /\ seen' = [seen EXCEPT ![t] = << >>]
    /\ pruned' = [pruned EXCEPT ![t] = << >>]
    /\ can_send' = [can_send EXCEPT ![t] = FALSE]
    /\ clean_numbers' = [clean_numbers EXCEPT ![t] = << >>]
    /\ response' = [response EXCEPT ![t] = ""]
    /\ ret' = [ret EXCEPT ![t] = NoRet]
    /\ UNCHANGED << api_key, sent_alerts, clock >>

\* time passes
Tick ==
    /\ UNCHANGED predVars
    /\ clock < MaxClock
    /\ clock' = clock + 1
    /\ UNCHANGED << api_key, sent_alerts, pc, phone_numbers, location_key, now, seen,
                    pruned, can_send, clean_numbers, response, ret >>

\* one step of caller t, its inputs drawn from the given sets
Step(t, Phones, Locations, Outcomes) ==
    \/ \E numbers \in Phones, location_data \in Locations :
          Call(t, numbers, location_data)
    \/ Prune(t)
    \/ Assign(t)
    \/ Test(t)
    \/ Proceed(t)
    \/ \E outcome \in Outcomes : Respond(t, outcome)
    \/ Done(t)

Init ==
    /\ api_key \in {"", "key"}
    /\ sent_alerts = << >>
    /\ clock = 0
    /\ pc = [t \in Threads |-> "idle"]
    /\ phone_numbers = [t \in Threads |-> << >>]
    /\ location_key = [t \in Threads |-> NoKey]
    /\ now = [t \in Threads |-> 0]
    /\ seen = [t \in Threads |-> << >>]
    /\ pruned = [t \in Threads |-> << >>]
    /\ can_send = [t \in Threads |-> FALSE]
    /\ clean_numbers = [t \in Threads |-> << >>]
    /\ response = [t \in Threads |-> ""]
    /\ ret = [t \in Threads |-> NoRet]
    /\ PredictiveIdle

\* single-threaded execution: one caller, calls run one after the other
NextSeq ==
    \/ Step(1, PhoneInputs, LocationInputs, GatewayOutcomes)
    \/ Tick

SpecSeq == Init /\ [][NextSeq]_vars

\* concurrent callers (a threaded server) alerting about one neighbourhood:
\* any interleaving of the steps of the callers
ConcurrentPhones == { << "9876543210" >> }
ConcurrentLocations ==
    { [lat |-> FloatV(129716), lng |-> FloatV(775946)],
      [lat |-> FloatV(129724), lng |-> FloatV(775951)] }
ConcurrentOutcomes == { "accepted", "timeout" }

NextConc ==
    \/ \E t \in Threads :
          Step(t, ConcurrentPhones, ConcurrentLocations, ConcurrentOutcomes)
    \/ Tick

SpecConc == Init /\ [][NextConc]_vars

(***************************************************************************)
(* The Trend Analyzer on every weekly distribution of reports.             *)
(***************************************************************************)
MaxWeeks == 4
MaxPerWeek == 7

Row(lat, lng, day) == [latitude |-> lat, longitude |-> lng, created_at |-> day]

RECURSIVE RowsOfWeek(_, _)
\* n reports of week w, spread over the days of that week (Monday..Sunday)
RowsOfWeek(w, n) ==
    IF n = 0 THEN << >>
    ELSE Append(RowsOfWeek(w, n - 1), Row(1297, 7759, 7 * (w - 1) + 1 + ((n - 1) % 7)))

RECURSIVE FrameOfCounts(_, _)
\* a DataFrame with counts[w] reports in week w, for w up to the given week
FrameOfCounts(counts, w) ==
    IF w = 0 THEN << >>
    ELSE FrameOfCounts(counts, w - 1) \o RowsOfWeek(w, counts[w])

SMSIdle ==
    /\ api_key = ""
    /\ sent_alerts = << >>
    /\ clock = 0
    /\ pc = [t \in Threads |-> "idle"]
    /\ phone_numbers = [t \in Threads |-> << >>]
    /\ location_key = [t \in Threads |-> NoKey]
    /\ now = [t \in Threads |-> 0]
    /\ seen = [t \in Threads |-> << >>]
    /\ pruned = [t \in Threads |-> << >>]
    /\ can_send = [t \in Threads |-> FALSE]
    /\ clean_numbers = [t \in Threads |-> << >>]
    /\ response = [t \in Threads |-> ""]
    /\ ret = [t \in Threads |-> NoRet]

InitTrend ==
    /\ SMSIdle
    /\ model = ""
    /\ call = NoCall
    /\ trends = NoTrends
    /\ \E counts \in [1..MaxWeeks -> 0..MaxPerWeek] : df = FrameOfCounts(counts, MaxWeeks)

AnalyzeTrends(fp) ==
    /\ trends = NoTrends
    /\ trends' = _analyze_trends(df, fp)
    /\ UNCHANGED << smsVars, model, call, df >>

NextTrend == \E fp \in {-1, 0, 1} : AnalyzeTrends(fp)

SpecTrend == InitTrend /\ [][NextTrend]_vars

(***************************************************************************)
(* predict_pothole_conditions on small report lists.                       *)
(***************************************************************************)
MaxReports == 3

AllFields == LocationFields \cup RowFields

Report(has, lat, lng, day, dateOk) ==
    [has |-> has, lat |-> lat, lng |-> lng, day |-> day, dateOk |-> dateOk]

\* reports around (12.97, 77.59): at the point, at 4.96 km, at 5.55 km, without
\* a location, in range without a severity, out of range without a severity
ReportPool ==
    { Report(AllFields, 1297, 7759, 3, TRUE),
      Report(AllFields, 1301, 7761, 10, TRUE),
      Report(AllFields, 1302, 7759, 3, TRUE),
      Report(RowFields, 0, 0, 3, TRUE),
      Report(AllFields \ {"severity"}, 1297, 7759, 10, TRUE),
      Report(AllFields \ {"severity"}, 1302, 7759, 10, FALSE) }

ReportLists == UNION { [1..n -> ReportPool] : n \in 0..MaxReports }

PredictLocations ==
    { [has |-> {"lat", "lng"}, lat |-> 1297, lng |-> 7759],
      [has |-> {"lng"}, lat |-> 0, lng |-> 7759] }

TimeRanges == {"week", "7 days"}

AITexts ==
    { "Severity: HIGH\nconfidence: 0.85\nthe trend is rising\nWe recommend repairs ",
      "minor issues, confidence 1.5",
      "Moderate risk. Confidence: 0.8.",
      "Trend: stable, low risk",
      "no data" }

AIText(text) == [kind |-> "text", text |-> text]
AIRaises == [kind |-> "raise", text |-> ""]       \* generate_content raises
AITextRaises == [kind |-> "text_error", text |-> ""]  \* response.text raises
AIUnused == [kind |-> "unused", text |-> ""]

AIOutcomes == { AIText(text) : text \in AITexts } \cup {AIRaises, AITextRaises}

InitPredict ==
    /\ SMSIdle
    /\ model \in {"", "gemini-1.5-flash"}
    /\ call = NoCall
    /\ df = << >>
    /\ trends = NoTrends

\* one call on a fresh service object
Predict(location, reports, time_range, ai, fp) ==
    /\ call = NoCall
    /\ call' = [op |-> "predict_pothole_conditions",
                location |-> location, reports |-> reports, time_range |-> time_range,
                ai |-> IF AIConsulted(location, reports, time_range) THEN ai ELSE AIUnused,
                processed |-> _process_historical_data(reports, location),
                result |-> predict_pothole_conditions(location, reports, time_range, ai, fp)]
    /\ UNCHANGED << smsVars, model, df, trends >>

NextPredict ==
    /\ call = NoCall
    /\ \E location \in PredictLocations, reports \in ReportLists,
          time_range \in TimeRanges,
          ai \in AIOutcomes, fp \in {-1, 0, 1} :
           Predict(location, reports, time_range, ai, fp)

SpecPredict == InitPredict /\ [][NextPredict]_vars

(***************************************************************************)
(* PredictiveAnalytics.generate_trend_forecast: the JSON-block mode.       *)
(***************************************************************************)
\* a JSON value: a string, a number, a timestamp (n on the model's clock), or
\* a nested literal kept as its text
Str(s) == [t |-> "str", s |-> s, n |-> 0]
Num(n) == [t |-> "num", s |-> "", n |-> n]
Time(n) == [t |-> "time", s |-> "", n |-> n]
Literal(s) == [t |-> "literal", s |-> s, n |-> 0]

\* s[i], "" past the end
At(s, i) == IF i >= 1 /\ i <= Len(s) THEN CharAt(s, i) ELSE ""

RECURSIVE RFindFrom(_, _, _)
\* the last position at or before i where pat occurs in s, 0 when there is none
RFindFrom(s, pat, i) ==
    IF i < 1 THEN 0
    ELSE IF StartsAt(s, i, pat) THEN i
    ELSE RFindFrom(s, pat, i - 1)

\* d.update(other): the entries of other replace those of d
Update(d, other) ==
    [k \in DOMAIN d \cup DOMAIN other |-> IF k \in DOMAIN other THEN other[k] ELSE d[k]]

JsonFail == [ok |-> FALSE, v |-> Num(0), next |-> 0]

\* a JSON string at position i (the model's texts have no escape sequences)
JsonString(s, i) ==
    LET close == FindFrom(s, "\"", i + 1)
    IN  IF At(s, i) # "\"" \/ close = 0 THEN JsonFail
        ELSE [ok |-> TRUE, v |-> Str(SubSeq(s, i + 1, close - 1)), next |-> close + 1]

\* a JSON number at position i: digits, no leading zero (the model's texts
\* have no sign, fraction or exponent)
JsonNumber(s, i) ==
    LET end == SkipWhile(s, i, Digits)
    IN  IF end = i \/ (At(s, i) = "0" /\ end > i + 1) THEN JsonFail
        ELSE [ok |-> TRUE, v |-> Num(ToInt(SubSeq(s, i, end - 1))), next |-> end]

JsonValue(s, i) == IF At(s, i) = "\"" THEN JsonString(s, i) ELSE JsonNumber(s, i)

RECURSIVE JsonMembers(_, _, _)
\* the members of an object from position i, d the members read so far; a
\* repeated key keeps its last value
JsonMembers(s, i, d) ==
    LET key == JsonString(s, i)
        colon == SkipWhile(s, key.next, Whitespace)
        value == JsonValue(s, SkipWhile(s, colon + 1, Whitespace))
        after == SkipWhile(s, value.next, Whitespace)
        read == Update(d, [k \in {key.v.s} |-> value.v])
    IN  IF ~key.ok \/ At(s, colon) # ":" \/ ~value.ok THEN [ok |-> FALSE, v |-> << >>, next |-> 0]
        ELSE IF At(s, after) = "," THEN JsonMembers(s, SkipWhile(s, after + 1, Whitespace), read)
        ELSE IF At(s, after) = "}" THEN [ok |-> TRUE, v |-> read, next |-> after + 1]
        ELSE [ok |-> FALSE, v |-> << >>, next |-> 0]

\* json.loads(s) for a flat object: ok = FALSE where it raises JSONDecodeError
\* (also on "" and on anything after the closing brace)
json_loads(s) ==
    LET open == SkipWhile(s, 1, Whitespace)
        first == SkipWhile(s, open + 1, Whitespace)
        members == IF At(s, first) = "}" THEN [ok |-> TRUE, v |-> << >>, next |-> first + 1]
                   ELSE JsonMembers(s, first, << >>)
    IN  IF At(s, open) # "{" \/ ~members.ok THEN [ok |-> FALSE, v |-> << >>]
        ELSE IF SkipWhile(s, members.next, Whitespace) # Len(s) + 1 THEN [ok |-> FALSE, v |-> << >>]
        ELSE [ok |-> TRUE, v |-> members.v]

\* lines 504-532, the constant parts
MockTrends ==
    [forecast_period |-> Str("Next 6 months"),
     predicted_reports |-> Literal("{'month1': 12, 'month2': 15, 'month3': 18, 'month4': 14, 'month5': 16, 'month6': 13}"),
     trend_direction |-> Str("stable"),
     peak_periods |-> Literal("['monsoon', 'post-winter']"),
     issue_type_trends |-> Literal("{'potholes': 'stable', 'drainage': 'increasing', 'street_lamps': 'stable'}"),
     recommendations |-> Literal("['Monitor during peak seasons', 'Focus on preventive maintenance']"),
     confidence_level |-> Num(60)]

\* lines 407-412: the generation metadata
Metadata(reports, area_name, ts) ==
    [generated_at |-> Time(ts), area_name |-> Str(area_name),
     data_points |-> Num(Len(reports)), model |-> Str("gemini-1.5-flash")]

_generate_mock_trends(reports, area_name, ts) ==
    Update(MockTrends,
           [generated_at |-> Time(ts), area_name |-> Str(area_name),
            data_points |-> Num(Len(reports)), model |-> Str("mock-fallback")])

MergeMetadataAIWins(trend_data, metadata) == Update(metadata, trend_data)

\* line 407: trend_data.update(metadata)
MergeMetadata(trend_data, metadata) == Update(trend_data, metadata)

\* lines 400-401: find('{'), and rfind('}') + 1, as 0-based indices
JsonStart(text) == FindFrom(text, "{", 1) - 1
JsonEnd(text) == RFindFrom(text, "}", Len(text))

\* text[json_start:json_end] for json_start >= 0
Slice(text, json_start, json_end) ==
    IF json_end > json_start THEN SubSeq(text, json_start + 1, json_end) ELSE ""

\* ai: what generate_content / response.text do when reached; ts: datetime.now()
generate_trend_forecast(reports, area_name, ai, ts) ==
    IF model = "" THEN _generate_mock_trends(reports, area_name, ts)
    ELSE IF ai.kind # "text" THEN _generate_mock_trends(reports, area_name, ts)
    ELSE IF ai.text = "" THEN _generate_mock_trends(reports, area_name, ts)
    ELSE IF JsonStart(ai.text) # -1 /\ JsonEnd(ai.text) # -1
    THEN LET json_str == Slice(ai.text, JsonStart(ai.text), JsonEnd(ai.text))
         IN  IF json_loads(json_str).ok
             THEN MergeMetadata(json_loads(json_str).v, Metadata(reports, area_name, ts))
             ELSE _generate_mock_trends(reports, area_name, ts)
    ELSE _generate_mock_trends(reports, area_name, ts)

AreaNames == {"Selected Area", "Indiranagar"}

ForecastTexts ==
    { "Forecast: {\"trend_direction\":\"increasing\",\"model\":\"gpt\",\"data_points\":99} Hope it helps",
      "{ \"confidence_level\" : 80 , \"area_name\":\"x\"}",
      "{\"a\":\"x\",\"a\":\"y\"}",
      "{}",
      "",
      "no json here",
      "} reversed {",
      "{\"trend_direction\":\"stable\"",
      "\"trend_direction\":\"stable\"}",
      "{\"a\":1} and {\"b\":2}",
      "{trend: up}",
      "{\"a\":01}" }

ForecastOutcomes == { AIText(text) : text \in ForecastTexts } \cup {AIRaises, AITextRaises}

InitForecast ==
    /\ SMSIdle
    /\ model \in {"", "gemini-1.5-flash"}
    /\ call = NoCall
    /\ df = << >>
    /\ trends = NoTrends

\* one call on a fresh service object
Forecast(reports, area_name, ai) ==
    /\ call' = [op |-> "generate_trend_forecast",
                reports |-> reports, area_name |-> area_name,
                ai |-> IF model # "" THEN ai ELSE AIUnused,
                result |-> generate_trend_forecast(reports, area_name, ai, clock)]
    /\ UNCHANGED << smsVars, model, df, trends >>

NextForecast ==
    /\ call = NoCall
    /\ \E reports \in ReportLists, area_name \in AreaNames, ai \in ForecastOutcomes :
           Forecast(reports, area_name, ai)

SpecForecast == InitForecast /\ [][NextForecast]_vars

(***************************************************************************)
(* Properties of the alert rate limiter and dispatcher.                    *)
(***************************************************************************)
\* the timestamps of entry e younger than 24 hours at time ts
Young(e, ts) == { i \in 1..Len(e) : ts - e[i] < Day }

GatewayFailures == GatewayOutcomes \ {"accepted"}

LimitReached == Return(FALSE, "Daily alert limit reached for this location", 0)

\* C1: single-threaded, whenever the rate-limit check _can_send_alert has
\* completed for a location key, the ledger entry of that key holds at most
\* max_alerts_per_day (= 1) timestamps younger than 24 hours.
AtMostOneYoungAtCheck ==
    \A t \in Threads :
        pc[t] = "checked" =>
            Cardinality(Young(Entry(location_key[t]), clock)) <= max_alerts_per_day

\* a check completed on a key that holds a young timestamp
CheckOnUsedKey ==
    \E t \in Threads :
        /\ pc[t] = "checked"
        /\ Cardinality(Young(Entry(location_key[t]), clock)) = 1

\* C2: once the check has run for a caller with a valid number: a send recorded
\* less than 24 hours before the check makes the call return "daily limit
\* reached" without a gateway call; with no send recorded in the 24 hours
\* before the check (none at all, or only older ones) the gateway is called.
SlidingWindow ==
    \A t \in Threads :
        (pc[t] \in {"post", "done"} /\ location_key[t] # NoKey) =>
            IF Young(seen[t], now[t]) # {}
            THEN pc[t] = "done" /\ ret[t] = LimitReached /\ response[t] = ""
            ELSE CleanNumbers(phone_numbers[t]) # << >> =>
                    (pc[t] = "post" \/ response[t] # "")

\* a key whose recorded send is more than 24 hours old is allowed again
AllowedAgain ==
    \E t \in Threads :
        /\ pc[t] = "post"
        /\ seen[t] # << >>
        /\ \A i \in 1..Len(seen[t]) : now[t] - seen[t][i] > Day

\* C3: a ledger entry gains a timestamp only in the step in which the gateway
\* acknowledges success and the call returns (True, ...); a call that ends
\* any other way leaves every entry without a new timestamp.
AppendOnlyOnSuccess ==
    [][ /\ (\E k \in DOMAIN sent_alerts' : Len(sent_alerts'[k]) > Len(Entry(k))) =>
              \E t \in Threads :
                  /\ pc[t] = "post"
                  /\ response'[t] = "accepted"
                  /\ ret'[t].kind = "return" /\ ret'[t].ok
        /\ \A t \in Threads :
              (pc[t] # "done" /\ pc'[t] = "done") =>
                  IF ret'[t].kind = "return" /\ ret'[t].ok
                  THEN sent_alerts'[location_key[t]] =
                           Append(Entry(location_key[t]), clock)
                  ELSE \A k \in DOMAIN sent_alerts' :
                           Len(sent_alerts'[k]) <= Len(Entry(k))
      ]_vars

\* a call failed at the gateway and the entry of its key is still empty
FailedSendNotRecorded ==
    \E t \in Threads :
        /\ pc[t] = "done"
        /\ response[t] \in GatewayFailures
        /\ ~ret[t].ok
        /\ Entry(location_key[t]) = << >>

\* C4: with concurrent callers on one location key, at most one call is at
\* the gateway at a time and the key never holds more than one timestamp
\* younger than 24 hours (the check-to-append sequence is mutually exclusive).
MutualExclusion ==
    /\ \A t, u \in Threads :
          (t # u /\ pc[t] = "post" /\ pc[u] = "post") =>
              location_key[t] # location_key[u]
    /\ \A k \in DOMAIN sent_alerts :
          Cardinality(Young(sent_alerts[k], clock)) <= max_alerts_per_day

\* C5: whatever the gateway does other than acknowledge success, the call
\* returns (False, reason); nothing is raised to the caller.
GatewayFailureReturnsFalse ==
    \A t \in Threads :
        (pc[t] = "done" /\ response[t] \in GatewayFailures) =>
            ret[t].kind = "return" /\ ~ret[t].ok /\ ret[t].msg # ""

\* the response body was not a JSON object and the call is over
MalformedBodyHandled ==
    \E t \in Threads : pc[t] = "done" /\ response[t] = "not_an_object"

\* C6: no public operation lets an exception escape to its caller.
NoUnhandledFault ==
    \A t \in Threads : ret[t].kind # "raise"

(***************************************************************************)
(* Properties of the Trend Analyzer.                                       *)
(***************************************************************************)
\* C10: on a series of at least 2 weekly buckets the prediction is high when
\* frequency > 5 or (increasing and frequency > 3), otherwise medium when
\* frequency > 2 or increasing, otherwise low (frequencies in twelfths).
HeuristicPrecedence ==
    (trends # NoTrends /\ Len(WeeklyCounts(df)) >= 2) =>
        LET f == trends.frequency
            increasing == trends.trend = "increasing"
            rule1 == f > 5 * 12 \/ (increasing /\ f > 3 * 12)
            rule2 == f > 2 * 12 \/ increasing
        IN  /\ rule1 => trends.prediction = "high"
            /\ (~rule1 /\ rule2) => trends.prediction = "medium"
            /\ (~rule1 /\ ~rule2) => trends.prediction = "low"
            /\ (f = 6 * 12 /\ trends.trend = "stable") => trends.prediction = "high"
            /\ (f = 4 * 12 /\ increasing) => trends.prediction = "high"
            /\ (f = 30 /\ trends.trend = "stable") => trends.prediction = "medium"
            /\ (f = 12 /\ trends.trend = "stable") => trends.prediction = "low"

\* rule 1b decided: frequency 4 and increasing gave high
HighByIncreasingTrend ==
    /\ Len(WeeklyCounts(df)) >= 2
    /\ trends.trend = "increasing"
    /\ trends.frequency = 4 * 12
    /\ trends.prediction = "high"

(***************************************************************************)
(* Properties of the Prediction Blender.                                   *)
(***************************************************************************)
Called == call # NoCall

\* some report makes the Geofilter raise: it has no location, or the target
\* has no lat/lng, or it is in range and lacks a field or a readable date
PipelineFails ==
    \E i \in 1..Len(call.reports) :
        \/ DistanceRaises(call.reports[i], call.location)
        \/ InRadius(call.reports[i], call.location) /\ RowRaises(call.reports[i])

\* the AI was reached and the call, or the parse of its text, raised
AIFailed ==
    /\ call.ai.kind # "unused"
    /\ \/ call.ai.kind \in {"raise", "text_error"}
       \/ ConfidenceRaises(call.ai.text)
       \/ TrendRaises(call.ai.text)

\* the AI was reached, answered, and the parse of its text raised nothing
AISucceeded ==
    /\ call.ai.kind = "text"
    /\ ~ConfidenceRaises(call.ai.text)
    /\ ~TrendRaises(call.ai.text)

PureStatistical(result) ==
    /\ result.confidence = 60
    /\ DOMAIN result.trends = {"statistical"}
    /\ result.predictedSeverity = result.trends.statistical.prediction

\* C7 as stated: without an AI credential the confidence is 0.6 and trends
\* has no 'ai' entry, whatever the location and the reports.
DisabledAlwaysSixty ==
    (Called /\ model = "") =>
        /\ call.result.confidence = 60
        /\ "ai" \notin DOMAIN call.result.trends

\* C7 amended: without an AI credential trends holds only 'statistical'; the
\* confidence is 0.6 when the statistical pipeline completes, and the result
\* is the all-default payload with confidence 0.3 when it raises.
DisabledSixtyOrDefault ==
    (Called /\ model = "") =>
        /\ DOMAIN call.result.trends = {"statistical"}
        /\ IF PipelineFails
           THEN call.result = DefaultResult /\ call.result.confidence = 30
           ELSE PureStatistical(call.result)

\* AI disabled, reports in two weeks: a statistical prediction at 0.6
DisabledStatistical ==
    /\ Called /\ model = ""
    /\ call.result.confidence = 60
    /\ call.result.trends.statistical.trend = "increasing"
    /\ call.result.predictedSeverity = "medium"

\* C8: with AI enabled, a failed AI call or a failed parse of its response
\* yields the pure statistical result: confidence 0.6, the statistical
\* prediction, nothing AI-derived.
AIFailureIsStatistical ==
    (Called /\ AIFailed) => PureStatistical(call.result)

\* C9: when the AI call and the parse succeed, severity and confidence are
\* the AI's and trends holds both 'ai' and the 'statistical' TrendResult of the
\* same reports (the one the statistical-only path computes for them).
BothTracksVisible ==
    (Called /\ AISucceeded) =>
        /\ DOMAIN call.result.trends = {"ai", "statistical"}
        /\ call.result.predictedSeverity = _parse_ai_response(call.ai.text).severity
        /\ call.result.confidence = _parse_ai_response(call.ai.text).confidence
        /\ call.result.trends.ai = _parse_ai_response(call.ai.text).trends
        /\ \E fp \in {-1, 0, 1} :
              call.result.trends.statistical =
                  _fallback_prediction(call.location, call.reports, fp).trends.statistical

\* the AI says high at 0.85 where the statistics say otherwise; both are shown
AIAuthoritative ==
    /\ Called /\ AISucceeded
    /\ call.result.predictedSeverity = "high"
    /\ call.result.confidence = 85
    /\ call.result.trends.ai.description = "is rising"
    /\ call.result.trends.statistical.prediction = "medium"


(***************************************************************************)
(* Properties of the phone number normalisation.                           *)
(***************************************************************************)
\* the normalisation as specified: a +91 at the start of the number is
\* stripped, then spaces and hyphens
StripLeadingCountryCode(number) ==
    IF StartsAt(number, 1, "+91") THEN SubSeq(number, 4, Len(number)) ELSE number

NormalizedAsSpecified(number) ==
    Remove(Remove(StripLeadingCountryCode(number), " "), "-")

SendListAsSpecified(numbers) ==
    SelectSeq([i \in 1..Len(numbers) |-> NormalizedAsSpecified(numbers[i])], IsValidNumber)

NoValidNumbers == Return(FALSE, "No valid phone numbers found", 0)

\* C11: each input number is normalised by stripping a leading +91, spaces and
\* hyphens, and is kept in the send list exactly when 10 digits remain; the
\* gateway is called only with that list, and when no number remains the call
\* returns failure without calling the gateway and without recording a send.
PhoneNormalization ==
    \A t \in Threads :
        /\ pc[t] = "post" =>
              /\ clean_numbers[t] = SendListAsSpecified(phone_numbers[t])
              /\ clean_numbers[t] # << >>
        /\ (pc[t] = "done" /\ response[t] # "") =>
              SendListAsSpecified(phone_numbers[t]) # << >>
        /\ (pc[t] = "done" /\ ret[t] = NoValidNumbers) =>
              /\ SendListAsSpecified(phone_numbers[t]) = << >>
              /\ response[t] = ""
              /\ Entry(location_key[t]) = pruned[t]


(***************************************************************************)
(* Properties of the Geofilter.                                            *)
(***************************************************************************)
\* a report with every required field and a readable createdAt
WellFormed(report) == AllFields \subseteq report.has /\ report.dateOk

\* the rows of the well-formed reports within radius_km of the location
RowsWithinRadius(reports, location) ==
    LET kept == SelectSeq(reports, LAMBDA r : WellFormed(r) /\ InRadius(r, location))
    IN  [i \in 1..Len(kept) |-> Row(kept[i].lat, kept[i].lng, kept[i].day)]

\* C12: for a target location with lat and lng, _process_historical_data
\* never raises on a report that lacks a required field or is malformed; it
\* skips that report, and its output is exactly the well-formed reports whose
\* degree-distance x 111 is at most radius_km.
BadRecordSkipped ==
    (Called /\ {"lat", "lng"} \subseteq call.location.has) =>
        /\ call.processed.ok
        /\ call.processed.rows = RowsWithinRadius(call.reports, call.location)


(***************************************************************************)
(* Properties of the keyword-mode AI Response Parser.                      *)
(***************************************************************************)
\* C13: for every response text the parser raises nothing, the severity is
\* that of the first keyword group (high, medium, low) with a keyword in the
\* lowered text, medium when none matches, and the confidence is the decimal
\* after a 'confidence' token clamped to [0,1], 0.7 without such a token -
\* whether or not, and in whichever letter case, 'trend' occurs in the text.
KeywordParseIgnoresTrend ==
    (Called /\ call.ai.kind = "text") =>
        LET lowered == Lower(call.ai.text)
            match == FirstConfidenceFrom(lowered, 1)
        IN  /\ "ai" \in DOMAIN call.result.trends
            /\ call.result.predictedSeverity = SeverityOf(lowered)
            /\ match = "" => call.result.confidence = 70
            /\ (match # "" /\ ParseFloat(match).ok) =>
                  call.result.confidence = Clamp(ParseFloat(match).v)


(***************************************************************************)
(* Properties of the Trend Analyzer on sparse data.                        *)
(***************************************************************************)
\* the calendar week (Monday to Sunday, day 0 being a Sunday) of a day
CalendarWeek(day) == (day + 6) \div 7

\* the calendar weeks that have a report of df
ReportWeeks == { CalendarWeek(df[i].created_at) : i \in 1..Len(df) }

\* the reports of df per week, from the first to the last week of ReportWeeks,
\* 0 for a week in between without a report
ContiguousSeries ==
    LET first == CHOOSE w \in ReportWeeks : \A v \in ReportWeeks : w <= v
        last == CHOOSE w \in ReportWeeks : \A v \in ReportWeeks : w >= v
    IN  [j \in 1..(last - first + 1) |->
            Cardinality({ i \in 1..Len(df) : CalendarWeek(df[i].created_at) = first + j - 1 })]

\* C14: an empty report set gives stable, frequency 0, low; reports that all
\* fall in one calendar week give stable, low and the count of that week as
\* the frequency; reports in 2 or more calendar weeks get the line fit and the
\* heuristic over the contiguous weekly series from the first to the last
\* report week, the empty weeks in between counting as 0.
SparseDataRule ==
    trends # NoTrends =>
        IF df = << >>
        THEN trends = [trend |-> "stable", frequency |-> 0, prediction |-> "low"]
        ELSE IF Cardinality(ReportWeeks) < 2
        THEN trends = [trend |-> "stable", frequency |-> 12 * Len(df), prediction |-> "low"]
        ELSE /\ trends.trend \in { TrendOf(ContiguousSeries, fp) : fp \in {-1, 0, 1} }
             /\ trends.frequency = RecentFrequency(ContiguousSeries)
             /\ trends.prediction = PredictSeverity(trends.trend, trends.frequency)

\* six or more reports, all in one week, were analysed: low, not high
BusySingleWeek ==
    /\ trends # NoTrends
    /\ Cardinality(ReportWeeks) = 1
    /\ Len(df) >= 6
    /\ trends.prediction = "low"


(***************************************************************************)
(* Properties of the JSON-block mode of generate_trend_forecast.           *)
(***************************************************************************)
Forecasted == call # NoCall /\ call.op = "generate_trend_forecast"

\* the text from the first '{' to the last '}', "" when either is missing or
\* the last '}' precedes the first '{'
JsonBlock(text) ==
    LET first == FindFrom(text, "{", 1)
        last == RFindFrom(text, "}", Len(text))
    IN  IF first # 0 /\ last # 0 /\ first < last THEN SubSeq(text, first, last) ELSE ""

\* the AI was reached, answered, and the block of its answer parses
ForecastParsed ==
    /\ call.ai.kind = "text"
    /\ JsonBlock(call.ai.text) # ""
    /\ json_loads(JsonBlock(call.ai.text)).ok

MetadataKeys == {"generated_at", "area_name", "data_points", "model"}

\* C15: generate_trend_forecast fails closed.  With the AI disabled, raising,
\* answering an empty text, a text without '{' or '}' (or with the last '}'
\* before the first '{'), or a block that does not parse, the result is the
\* mock payload (model 'mock-fallback', data_points = number of reports); only
\* when the block parses is the parsed object returned, the metadata
\* (generated_at, area_name, data_points, model 'gemini-1.5-flash') merged in
\* over any same-named field of the AI.
ForecastFailsClosed ==
    Forecasted =>
        /\ call.result.generated_at = Time(clock)
        /\ call.result.area_name = Str(call.area_name)
        /\ call.result.data_points = Num(Len(call.reports))
        /\ IF ForecastParsed
           THEN LET parsed == json_loads(JsonBlock(call.ai.text)).v
                IN  /\ call.result.model = Str("gemini-1.5-flash")
                    /\ DOMAIN call.result = DOMAIN parsed \cup MetadataKeys
                    /\ \A k \in DOMAIN parsed \ MetadataKeys : call.result[k] = parsed[k]
           ELSE /\ call.result.model = Str("mock-fallback")
                /\ DOMAIN call.result = DOMAIN MockTrends \cup MetadataKeys
                /\ \A k \in DOMAIN MockTrends : call.result[k] = MockTrends[k]

\* the AI's object named a model and a data_points of its own: both were
\* overridden, its trend_direction was kept
AIFieldsOverridden ==
    /\ Forecasted
    /\ call.ai.kind = "text"
    /\ Contains(call.ai.text, "\"model\":\"gpt\"")
    /\ call.result.model = Str("gemini-1.5-flash")
    /\ call.result.data_points = Num(Len(call.reports))
    /\ call.result.trend_direction = Str("increasing")

=============================================================================
